---- MODULE Spec2Model ----
(***************************************************************************)
(* Model of scripts/perftools: the table lookups of csv_parser.py and the  *)
(* two profiling sweeps of nsys_ncu_profiling.py.                          *)
(*                                                                         *)
(* Text is a sequence of one-character strings, so that substring tests,   *)
(* str(), lower() and f-string formatting are computed character by        *)
(* character.  A table file is what pandas loads: an ordered list of       *)
(* (unique) column names and an ordered list of rows of cells.             *)
(*                                                                         *)
(* SpecLookup drives the two lookups on one file, SpecSweep runs either    *)
(* sweep step by step (one step per external command or lookup), and       *)
(* FairSweep adds the fairness under which a sweep terminates.             *)
(***************************************************************************)
EXTENDS Integers, Sequences, FiniteSets, TLC

VARIABLES
    \* ---- csv_parser.py, driven as in its __main__ block ----
    table_file,      \* content found at file_path (missing / unreadable / table)
    arg_kernel,      \* kernel_name argument of both lookups
    arg_metric,      \* metric_name argument of find_kernel_metric
    arg_metrics,     \* metric_names argument of find_all_kernel_metrics
    value,           \* outcome of the last find_kernel_metric call
    metrics,         \* outcome of the last find_all_kernel_metrics call
    value0,          \* outcome of find_kernel_metric before the columns were reordered
    table0,          \* the table as it was before the columns were reordered
    reordered,       \* whether the columns of the file have been reordered
    lpc,             \* position of the lookup driver
    \* ---- nsys_ncu_profiling.py ----
    tool,            \* "nsys" (nsys_profile_samplingtopK) or "ncu" (ncu_profile_samplingtopK)
    B_values, N_values, K_values, dtypes,   \* the four sweep lists
    kernel_name0,    \* the kernel_name argument as passed by the caller
    kernel_name,     \* the local variable kernel_name
    bi, ni, ki, di,  \* positions of the four nested loops (1-based)
    output_name,     \* the local variable output_name of the current point
    pc,              \* position of the sweep
    disk,            \* trace tables on disk: path -> file content
    summary,         \* rows written to the summary csv, header included
    log,             \* external commands and lookups run so far, in order
    stdout           \* diagnostics printed by the sweep's except handlers and lookups

lookupVars == <<table_file, arg_kernel, arg_metric, arg_metrics, value, metrics,
                value0, table0, reordered, lpc>>
sweepVars == <<tool, B_values, N_values, K_values, dtypes, kernel_name0, kernel_name,
               bi, ni, ki, di, output_name, pc, disk, summary, log, stdout>>
vars == <<lookupVars, sweepVars>>

----------------------------------------------------------------------------
(* Bounds of the model.                                                    *)

\* most data rows of a table file
MaxRows == 2
\* most entries of metric_names
MaxMetrics == 2
\* most sweep points (|B| * |N| * |K| * |dtypes|) of one sweep
MaxPoints == 4

----------------------------------------------------------------------------
(* Text.                                                                   *)

UpperAZ == <<"A","B","C","D","E","F","G","H","I","J","K","L","M",
             "N","O","P","Q","R","S","T","U","V","W","X","Y","Z">>
LowerAZ == <<"a","b","c","d","e","f","g","h","i","j","k","l","m",
             "n","o","p","q","r","s","t","u","v","w","x","y","z">>

\* str.lower() on one character
LowerChar(c) ==
    IF \E i \in 1..26 : UpperAZ[i] = c
    THEN LowerAZ[CHOOSE i \in 1..26 : UpperAZ[i] = c]
    ELSE c

\* str.lower()
Lower(s) == [i \in 1..Len(s) |-> LowerChar(s[i])]

\* Python's `sub in s` on strings
Contains(s, sub) ==
    \E i \in 0..(Len(s) - Len(sub)) : SubSeq(s, i + 1, i + Len(sub)) = sub

\* s.startswith(p) / s.endswith(p)
StartsWith(s, p) == Len(p) <= Len(s) /\ SubSeq(s, 1, Len(p)) = p
EndsWith(s, p) == Len(p) <= Len(s) /\ SubSeq(s, Len(s) - Len(p) + 1, Len(s)) = p

Digits == <<"0","1","2","3","4","5","6","7","8","9">>

\* str(n) for a non-negative int
RECURSIVE StrInt(_)
StrInt(n) ==
    IF n < 10 THEN <<Digits[n + 1]>>
    ELSE StrInt(n \div 10) \o <<Digits[(n % 10) + 1]>>

----------------------------------------------------------------------------
(* Cells and table files.                                                  *)

TxtCell(s) == [t |-> "txt", n |-> 0, s |-> s]
NumCell(n) == [t |-> "num", n |-> n, s |-> <<>>]
\* an empty csv field, loaded as NaN
NanCell == [t |-> "nan", n |-> 0, s |-> <<>>]
\* Python's None
None == [t |-> "none", n |-> 0, s |-> <<>>]

\* str(cell), as in the row_str join
StrCell(c) ==
    CASE c.t = "txt" -> c.s
      [] c.t = "num" -> StrInt(c.n)
      [] OTHER -> <<"n","a","n">>

MissingFile == [kind |-> "missing", columns |-> <<>>, rows |-> <<>>]
UnreadableFile == [kind |-> "unreadable", columns |-> <<>>, rows |-> <<>>]
TableFile(cols, rows) == [kind |-> "table", columns |-> cols, rows |-> rows]

\* ' '.join(str(cell) for cell in row.values)
RECURSIVE JoinFrom(_, _)
JoinFrom(row, j) ==
    IF j > Len(row) THEN <<>>
    ELSE IF j = Len(row) THEN StrCell(row[j])
    ELSE StrCell(row[j]) \o <<" ">> \o JoinFrom(row, j + 1)

row_str(row) == JoinFrom(row, 1)

\* df.loc[row_id, col_name]; read_csv keeps column names unique
Loc(df, row_id, col_name) ==
    df.rows[row_id][CHOOSE j \in 1..Len(df.columns) : df.columns[j] = col_name]

----------------------------------------------------------------------------
(* csv_parser.find_kernel_metric                                           *)

\* what a lookup leaves behind: the returned value, the kinds of the lines it
\* printed, and the row and column it settled on (0 when it found none)
Outcome(ret, diag, row_id, col_idx) ==
    [ret |-> ret, diag |-> diag, row_id |-> row_id, col_idx |-> col_idx]

\* `kernel_name in row_str`
MatchesRow(row, kname) == Contains(row_str(row), kname)

\* the row loop with its break: first row from position i on that matches, or 0
RECURSIVE FindRow(_, _, _)
FindRow(df, kname, i) ==
    IF i > Len(df.rows) THEN 0
    ELSE IF MatchesRow(df.rows[i], kname) THEN i
    ELSE FindRow(df, kname, i + 1)

\* a bug the column test could have: comparing without lower()
MatchesColumnCaseSensitive(col_name, mname) == Contains(col_name, mname)

\* `metric_name_lower in str(col_name).lower()`
MatchesColumn(col_name, mname) == Contains(Lower(col_name), Lower(mname))

\* the column loop with its break: first column from position j on, or 0
RECURSIVE FindCol(_, _, _)
FindCol(df, mname, j) ==
    IF j > Len(df.columns) THEN 0
    ELSE IF MatchesColumn(df.columns[j], mname) THEN j
    ELSE FindCol(df, mname, j + 1)

\* a bug the handler could have: reporting a missing file as an unmatched kernel
FileNotFoundAsWarning == Outcome(None, <<"Warning: Kernel not found">>, 0, 0)

\* except FileNotFoundError
OnFileNotFound == Outcome(None, <<"Error: File not found">>, 0, 0)

\* except Exception
OnException == Outcome(None, <<"Error processing file">>, 0, 0)

find_kernel_metric(file, kname, mname) ==
    IF file.kind = "missing" THEN OnFileNotFound
    ELSE IF file.kind = "unreadable" THEN OnException
    ELSE
      LET df == file
          row_id == FindRow(df, kname, 1)
          col_idx == FindCol(df, mname, 1)
      IN  IF row_id = 0
          THEN Outcome(None, <<"Loaded", "Warning: Kernel not found">>, 0, 0)
          ELSE IF col_idx = 0
          THEN Outcome(None,
                       <<"Loaded", "Found kernel", "Warning: Metric not found">>,
                       row_id, 0)
          ELSE Outcome(Loc(df, row_id, df.columns[col_idx]),
                       <<"Loaded", "Found kernel", "Found metric", "Value">>,
                       row_id, col_idx)

----------------------------------------------------------------------------
(* csv_parser.find_all_kernel_metrics                                      *)

\* a dict is the set of its items; the empty dict
EmptyDict == {}

\* results[key] = val
DictSet(d, key, val) == { e \in d : e.key # key } \cup { [key |-> key, val |-> val] }

\* key in d, and d[key]
Keys(d) == { e.key : e \in d }
Get(d, key) == (CHOOSE e \in d : e.key = key).val

\* the row loop of find_all_kernel_metrics
RECURSIVE FindRowAll(_, _, _)
FindRowAll(df, kname, i) ==
    IF i > Len(df.rows) THEN 0
    ELSE IF Contains(row_str(df.rows[i]), kname) THEN i
    ELSE FindRowAll(df, kname, i + 1)

\* a bug the batch column test could have: comparing without lower()
MatchesColumnAllCaseSensitive(col_name, mname) == Contains(col_name, mname)

\* `metric_lower in str(col_name).lower()`
MatchesColumnAll(col_name, mname) == Contains(Lower(col_name), Lower(mname))

\* the inner column loop with its break
RECURSIVE FindColAll(_, _, _)
FindColAll(df, mname, j) ==
    IF j > Len(df.columns) THEN 0
    ELSE IF MatchesColumnAll(df.columns[j], mname) THEN j
    ELSE FindColAll(df, mname, j + 1)

\* a bug the batch loop could have: recording None for a metric without a column
RecordMetricOrNone(df, row_id, mname, results) ==
    LET j == FindColAll(df, mname, 1)
    IN  IF j = 0 THEN DictSet(results, mname, None)
        ELSE DictSet(results, mname, Loc(df, row_id, df.columns[j]))

\* one pass of `for metric_name in metric_names`
RecordMetric(df, row_id, mname, results) ==
    LET j == FindColAll(df, mname, 1)
    IN  IF j = 0 THEN results
        ELSE DictSet(results, mname, Loc(df, row_id, df.columns[j]))

\* `for metric_name in metric_names`, from position i on
RECURSIVE FindEach(_, _, _, _, _)
FindEach(df, row_id, mnames, i, results) ==
    IF i > Len(mnames) THEN results
    ELSE FindEach(df, row_id, mnames, i + 1,
                  RecordMetric(df, row_id, mnames[i], results))

find_all_kernel_metrics(file, kname, mnames) ==
    IF file.kind # "table"
    THEN Outcome(EmptyDict, <<"Error">>, 0, 0)
    ELSE
      LET df == file
          row_id == FindRowAll(df, kname, 1)
      IN  IF row_id = 0
          THEN Outcome(EmptyDict, <<"Warning: Kernel not found">>, 0, 0)
          ELSE Outcome(FindEach(df, row_id, mnames, 1, EmptyDict), <<>>, row_id, 0)

----------------------------------------------------------------------------
(* Inputs of the lookups.                                                  *)

sDuration == <<"D","u","r","a","t","i","o","n">>
sStart == <<"S","t","a","r","t">>
sName == <<"N","a","m","e">>

\* the columns of the tables as first written; ReorderColumns gives the other order
HeaderPool == { <<sDuration, sStart>> }

\* rows of two cells; "a 1" occurs in the joined text of the first only, and
\* "b n" only where the empty field of the third is rendered after "b"
RowPool == { <<TxtCell(<<"a">>), NumCell(12)>>,
             <<NumCell(12), TxtCell(<<"a">>)>>,
             <<TxtCell(<<"b">>), NanCell>> }

KernelPool == { <<"a"," ","1">>, <<"1","2">>, <<"b"," ","n">>, <<"A">> }

MetricPool == { <<"d","u","r","a","t","i","o","n">>,
                <<"D","U","R","A","T","I","O","N">>,
                <<"D","u","r">>,
                <<"t">>,
                <<"x">> }

SeqsUpTo(S, n) == UNION { [1..k -> S] : k \in 0..n }

Files == { MissingFile, UnreadableFile }
         \cup { TableFile(h, r) : h \in HeaderPool, r \in SeqsUpTo(RowPool, MaxRows) }

NotCalled == Outcome(None, <<>>, 0, 0)
NotCalledAll == Outcome(EmptyDict, <<>>, 0, 0)

\* the columns of a table put in the order perm (headers and cells together)
Permute(file, perm) ==
    TableFile([j \in 1..Len(file.columns) |-> file.columns[perm[j]]],
              [i \in 1..Len(file.rows) |->
                  [j \in 1..Len(file.columns) |-> file.rows[i][perm[j]]]])

ColumnOrders(file) ==
    { perm \in [1..Len(file.columns) -> 1..Len(file.columns)] :
        /\ \A a, b \in 1..Len(file.columns) : perm[a] = perm[b] => a = b
        /\ \E a \in 1..Len(file.columns) : perm[a] # a }

----------------------------------------------------------------------------
(* Text of nsys_ncu_profiling.py.                                          *)

sSamplingtopK == <<"s","a","m","p","l","i","n","g","t","o","p","K">>
stopKStage1 == <<"t","o","p","K","S","t","a","g","e","1">>
stopKStage2Sampling ==
    <<"t","o","p","K","S","t","a","g","e","2","S","a","m","p","l","i","n","g">>
sFloat32 == <<"f","l","o","a","t","3","2">>
sFloat16 == <<"f","l","o","a","t","1","6">>
sTraceSuffix == <<".","c","s","v","_","c","u","d","a","_","g","p","u","_",
                  "t","r","a","c","e",".","c","s","v">>

\* f"{kernel_name}_B{B}_N{N}_topK{K}_{dtype}"
OutputName(kn, B, N, K, dtype) ==
    kn \o <<"_","B">> \o StrInt(B) \o <<"_","N">> \o StrInt(N)
       \o <<"_","t","o","p","K">> \o StrInt(K) \o <<"_">> \o dtype

\* os.path.join(output_dir, output_name)
OsPathJoin(dir, name) ==
    IF StartsWith(name, <<"/">>) THEN name
    ELSE IF dir = <<>> \/ EndsWith(dir, <<"/">>) THEN dir \o name
    ELSE dir \o <<"/">> \o name

\* the output_dir argument
output_dir == <<"o","u","t">>

\* f"{output_path}.csv_cuda_gpu_trace.csv"
TracePath(name) == OsPathJoin(output_dir, name) \o sTraceSuffix

\* what open() finds at a path
FileAt(d, path) == IF path \in DOMAIN d THEN d[path] ELSE MissingFile

\* the header row of the summary csv
SummaryHeader ==
    [Kernel |-> "Kernel", B |-> "B", N |-> "N", K |-> "top-K", dtype |-> "dtype",
     Avg |-> "Average Time(ns)"]

\* a bug the row could have: B and N written in each other's column
SummaryRowSwapped(kn, B, N, K, dtype, Avg) ==
    [Kernel |-> kn, B |-> N, N |-> B, K |-> K, dtype |-> dtype, Avg |-> Avg]

\* [kernel_name, B, N, K, dtype, Avg]
SummaryRow(kn, B, N, K, dtype, Avg) ==
    [Kernel |-> kn, B |-> B, N |-> N, K |-> K, dtype |-> dtype, Avg |-> Avg]

----------------------------------------------------------------------------
(* Inputs of the sweeps.                                                   *)

BPool == {1, 12}
NPool == {2}
KPool == {5}
DtypePool == {sFloat32, sFloat16}

\* longest sweep list
MaxLen == 2

\* trace tables the stats export may leave behind
TraceBoth ==
    TableFile(<<sStart, sDuration, sName>>,
              << <<NumCell(100), NumCell(43), TxtCell(stopKStage1)>>,
                 <<NumCell(150), NumCell(7), TxtCell(stopKStage2Sampling)>> >>)
TraceStage1Only ==
    TableFile(<<sStart, sDuration, sName>>,
              << <<NumCell(100), NumCell(43), TxtCell(stopKStage1)>> >>)
TracePool == { TraceBoth, TraceStage1Only, MissingFile }

----------------------------------------------------------------------------
(* The lookup driver: the calls of csv_parser's __main__ block, on a file  *)
(* whose columns may be reordered between two runs.                        *)

LookupIdle ==
    /\ table_file = MissingFile /\ table0 = MissingFile
    /\ arg_kernel = <<>> /\ arg_metric = <<>> /\ arg_metrics = <<>>
    /\ value = NotCalled /\ value0 = NotCalled /\ metrics = NotCalledAll
    /\ reordered = FALSE /\ lpc = "idle"

SweepIdle ==
    /\ tool = "none" /\ pc = "idle"
    /\ B_values = <<>> /\ N_values = <<>> /\ K_values = <<>> /\ dtypes = <<>>
    /\ kernel_name0 = <<>> /\ kernel_name = <<>> /\ output_name = <<>>
    /\ bi = 0 /\ ni = 0 /\ ki = 0 /\ di = 0
    /\ disk = <<>> /\ summary = <<>> /\ log = <<>> /\ stdout = <<>>

InitLookup ==
    /\ table_file \in Files
    /\ table0 = table_file
    /\ arg_kernel \in KernelPool
    /\ arg_metric \in MetricPool
    /\ arg_metrics \in SeqsUpTo(MetricPool, MaxMetrics)
    /\ value = NotCalled /\ value0 = NotCalled /\ metrics = NotCalledAll
    /\ reordered = FALSE
    /\ lpc = "single"
    /\ SweepIdle

CallFindKernelMetric ==
    /\ lpc = "single"
    /\ value' = find_kernel_metric(table_file, arg_kernel, arg_metric)
    /\ lpc' = "batch"
    /\ UNCHANGED <<table_file, arg_kernel, arg_metric, arg_metrics, metrics,
                   value0, table0, reordered, sweepVars>>

CallFindAllKernelMetrics ==
    /\ lpc = "batch"
    /\ metrics' = find_all_kernel_metrics(table_file, arg_kernel, arg_metrics)
    /\ lpc' = IF reordered \/ table_file.kind # "table" THEN "done" ELSE "reorder"
    /\ UNCHANGED <<table_file, arg_kernel, arg_metric, arg_metrics, value,
                   value0, table0, reordered, sweepVars>>

\* the file is written again with its columns in another order, and read again
ReorderColumns ==
    /\ lpc = "reorder"
    /\ \E perm \in ColumnOrders(table_file) : table_file' = Permute(table_file, perm)
    /\ value0' = value
    /\ reordered' = TRUE
    /\ lpc' = "single"
    /\ UNCHANGED <<arg_kernel, arg_metric, arg_metrics, value, metrics, table0,
                   sweepVars>>

NextLookup == CallFindKernelMetric \/ CallFindAllKernelMetrics \/ ReorderColumns

SpecLookup == InitLookup /\ [][NextLookup]_vars

----------------------------------------------------------------------------
(* The sweeps.                                                             *)

SweepLists ==
    { l \in SeqsUpTo(BPool, MaxLen) \X SeqsUpTo(NPool, MaxLen)
            \X SeqsUpTo(KPool, MaxLen) \X SeqsUpTo(DtypePool, MaxLen) :
        Len(l[1]) * Len(l[2]) * Len(l[3]) * Len(l[4]) <= MaxPoints }

InitSweep ==
    /\ tool \in {"nsys", "ncu"}
    /\ \E l \in SweepLists :
         B_values = l[1] /\ N_values = l[2] /\ K_values = l[3] /\ dtypes = l[4]
    /\ kernel_name0 = sSamplingtopK
    /\ kernel_name = kernel_name0
    /\ output_name = <<>>
    /\ bi = 0 /\ ni = 0 /\ ki = 0 /\ di = 0
    /\ pc = "start"
    /\ disk = <<>> /\ summary = <<>> /\ log = <<>> /\ stdout = <<>>
    /\ LookupIdle

Position(b, n, k, d, p) == [bi |-> b, ni |-> n, ki |-> k, di |-> d, pc |-> p]

\* entering the four nested for loops
FirstPoint ==
    IF Len(B_values) > 0 /\ Len(N_values) > 0 /\ Len(K_values) > 0 /\ Len(dtypes) > 0
    THEN Position(1, 1, 1, 1, "profile")
    ELSE Position(0, 0, 0, 0, "done")

\* the next iteration of the four nested for loops (dtype innermost)
NextPoint(b, n, k, d) ==
    IF d < Len(dtypes) THEN Position(b, n, k, d + 1, "profile")
    ELSE IF k < Len(K_values) THEN Position(b, n, k + 1, 1, "profile")
    ELSE IF n < Len(N_values) THEN Position(b, n + 1, 1, 1, "profile")
    ELSE IF b < Len(B_values) THEN Position(b + 1, 1, 1, 1, "profile")
    ELSE Position(b, n, k, d, "done")

\* a bug check could have: check=False never raises
RaisesNever(rc) == FALSE

\* subprocess.run(..., check=True) raises CalledProcessError on a non-zero exit
Raises(rc) == rc # 0

\* a bug the handler could have: leaving the loops (the try around the loops)
OnCalledProcessErrorAbort(b, n, k, d) == Position(b, n, k, d, "done")

\* except subprocess.CalledProcessError: print, then on to the next iteration
OnCalledProcessError(b, n, k, d) == NextPoint(b, n, k, d)

\* the same handler in ncu_profile_samplingtopK
NcuOnCalledProcessError(b, n, k, d) == NextPoint(b, n, k, d)

GoTo(pos) ==
    /\ bi' = pos.bi /\ ni' = pos.ni /\ ki' = pos.ki /\ di' = pos.di /\ pc' = pos.pc

Event(ev, name, rc) ==
    [ev |-> ev, pt |-> <<bi, ni, ki, di>>, name |-> name, rc |-> rc]

ExitCodes == {0, 1}

\* makedirs, open the summary csv, write its header, enter the loops
NsysStart ==
    /\ tool = "nsys" /\ pc = "start"
    /\ summary' = <<SummaryHeader>>
    /\ GoTo(FirstPoint)
    /\ UNCHANGED <<tool, B_values, N_values, K_values, dtypes, kernel_name0,
                   kernel_name, output_name, disk, log, stdout, lookupVars>>

\* the head of the loop body and the nsys_easy command
NsysProfile(rc) ==
    /\ tool = "nsys" /\ pc = "profile"
    /\ output_name' = OutputName(kernel_name, B_values[bi], N_values[ni],
                                 K_values[ki], dtypes[di])
    /\ log' = Append(log, Event("profile", output_name', rc))
    /\ IF Raises(rc)
       THEN /\ stdout' = Append(stdout, "Task failed")
            /\ GoTo(OnCalledProcessError(bi, ni, ki, di))
       ELSE /\ stdout' = stdout
            /\ GoTo(Position(bi, ni, ki, di, "stats"))
    /\ UNCHANGED <<tool, B_values, N_values, K_values, dtypes, kernel_name0,
                   kernel_name, disk, summary, lookupVars>>

\* the nsys stats command; on exit 0 it leaves `written` at the trace path
\* (nothing when `written` is the missing file)
NsysStats(rc, written) ==
    /\ tool = "nsys" /\ pc = "stats"
    /\ log' = Append(log, Event("stats", output_name, rc))
    /\ IF Raises(rc)
       THEN /\ stdout' = Append(stdout, "Task failed")
            /\ disk' = disk
            /\ GoTo(OnCalledProcessError(bi, ni, ki, di))
       ELSE /\ stdout' = stdout
            /\ disk' = IF rc = 0 /\ written.kind # "missing"
                       THEN [q \in (DOMAIN disk) \cup {TracePath(output_name)} |->
                               IF q = TracePath(output_name) THEN written ELSE disk[q]]
                       ELSE disk
            /\ GoTo(Position(bi, ni, ki, di, "lookup1"))
    /\ UNCHANGED <<tool, B_values, N_values, K_values, dtypes, kernel_name0,
                   kernel_name, output_name, summary, lookupVars>>

\* kernel_name = "topKStage1"; Avg = find_kernel_metric(...); writer.writerow(...)
NsysLookup1 ==
    /\ tool = "nsys" /\ pc = "lookup1"
    /\ kernel_name' = stopKStage1
    /\ LET found == find_kernel_metric(FileAt(disk, TracePath(output_name)),
                                       kernel_name', sDuration)
       IN  /\ summary' = Append(summary,
                                SummaryRow(kernel_name', B_values[bi], N_values[ni],
                                           K_values[ki], dtypes[di], found.ret))
           /\ stdout' = stdout \o found.diag
    /\ log' = Append(log, Event("lookup", output_name, 0))
    /\ GoTo(Position(bi, ni, ki, di, "lookup2"))
    /\ UNCHANGED <<tool, B_values, N_values, K_values, dtypes, kernel_name0,
                   output_name, disk, lookupVars>>

\* kernel_name = "topKStage2Sampling"; the second lookup and row; next iteration
NsysLookup2 ==
    /\ tool = "nsys" /\ pc = "lookup2"
    /\ kernel_name' = stopKStage2Sampling
    /\ LET found == find_kernel_metric(FileAt(disk, TracePath(output_name)),
                                       kernel_name', sDuration)
       IN  /\ summary' = Append(summary,
                                SummaryRow(kernel_name', B_values[bi], N_values[ni],
                                           K_values[ki], dtypes[di], found.ret))
           /\ stdout' = stdout \o found.diag
    /\ log' = Append(log, Event("lookup", output_name, 0))
    /\ GoTo(NextPoint(bi, ni, ki, di))
    /\ UNCHANGED <<tool, B_values, N_values, K_values, dtypes, kernel_name0,
                   output_name, disk, lookupVars>>

\* makedirs, enter the loops
NcuStart ==
    /\ tool = "ncu" /\ pc = "start"
    /\ GoTo(FirstPoint)
    /\ UNCHANGED <<tool, B_values, N_values, K_values, dtypes, kernel_name0,
                   kernel_name, output_name, disk, summary, log, stdout, lookupVars>>

\* the loop body of ncu_profile_samplingtopK: the ncu command
NcuProfile(rc) ==
    /\ tool = "ncu" /\ pc = "profile"
    /\ output_name' = OutputName(kernel_name, B_values[bi], N_values[ni],
                                 K_values[ki], dtypes[di])
    /\ log' = Append(log, Event("profile", output_name', rc))
    /\ IF Raises(rc)
       THEN /\ stdout' = Append(stdout, "Task failed")
            /\ GoTo(NcuOnCalledProcessError(bi, ni, ki, di))
       ELSE /\ stdout' = stdout
            /\ GoTo(NextPoint(bi, ni, ki, di))
    /\ UNCHANGED <<tool, B_values, N_values, K_values, dtypes, kernel_name0,
                   kernel_name, disk, summary, lookupVars>>

NextSweep ==
    \/ NsysStart
    \/ \E rc \in ExitCodes : NsysProfile(rc)
    \/ \E rc \in ExitCodes, written \in TracePool : NsysStats(rc, written)
    \/ NsysLookup1
    \/ NsysLookup2
    \/ NcuStart
    \/ \E rc \in ExitCodes : NcuProfile(rc)

SpecSweep == InitSweep /\ [][NextSweep]_vars

\* a list without a repeated value, as the lists of the script's __main__ block
NoRepeat(l) == \A a, b \in DOMAIN l : l[a] = l[b] => a = b

InitSweepNoRepeat ==
    /\ InitSweep
    /\ NoRepeat(B_values) /\ NoRepeat(N_values) /\ NoRepeat(K_values) /\ NoRepeat(dtypes)

\* every command is run synchronously and the loops are finite: the sweep
\* takes its next step whenever it has one
FairSweep == InitSweepNoRepeat /\ [][NextSweep]_vars /\ WF_vars(NextSweep)

----------------------------------------------------------------------------
(* Properties of the lookups, under SpecLookup.                            *)

\* `value` is the outcome of find_kernel_metric on the file as it is now
ValueFresh == lpc \in {"batch", "reorder", "done"}
\* `metrics` is the outcome of find_all_kernel_metrics on the file as it is now
MetricsFresh == lpc \in {"reorder", "done"}

Least(S) == CHOOSE x \in S : \A y \in S : x <= y

\* rows of table t whose space-joined text contains k, case-sensitively
RowsWith(t, k) == { i \in 1..Len(t.rows) : Contains(row_str(t.rows[i]), k) }
\* columns of table t whose header contains m, case-insensitively
ColsWith(t, m) == { j \in 1..Len(t.columns) : Contains(Lower(t.columns[j]), Lower(m)) }

ErrorKinds == { "Error: File not found", "Error processing file", "Error" }
PrintsError(o) == \E i \in DOMAIN o.diag : o.diag[i] \in ErrorKinds

C5_BatchKeysAreFoundMetrics ==
    (MetricsFresh /\ table_file.kind = "table") =>
        /\ ~PrintsError(metrics)
        /\ \A e1, e2 \in metrics.ret : e1.key = e2.key => e1 = e2
        /\ IF RowsWith(table_file, arg_kernel) = {}
           THEN metrics.ret = {}
           ELSE /\ Keys(metrics.ret) =
                      { arg_metrics[i] : i \in { n \in DOMAIN arg_metrics :
                                   ColsWith(table_file, arg_metrics[n]) # {} } }
                /\ \A m \in Keys(metrics.ret) :
                      Get(metrics.ret, m) =
                          table_file.rows[Least(RowsWith(table_file, arg_kernel))]
                                         [Least(ColsWith(table_file, m))]

\* two metrics requested, one with a column and one without
C5_Witness ==
    /\ MetricsFresh /\ table_file.kind = "table"
    /\ Len(arg_metrics) = 2
    /\ arg_metrics[2] = <<"x">>
    /\ Keys(metrics.ret) = { arg_metrics[1] }

\* C6: for both lookups, what the caller sees on a missing file (the returned
\* value and the kind of message printed) differs from what it sees on an
\* existing table in which no row or no column matches: the missing file is
\* reported by an error message, the unmatched row or column never is.
C6_MissingFileReportedDistinctly ==
    /\ (ValueFresh /\ table_file.kind = "missing") =>
          value.ret = None /\ value.diag = <<"Error: File not found">>
    /\ (ValueFresh /\ table_file.kind = "table" /\ value.ret = None) =>
          ~PrintsError(value)
    /\ (MetricsFresh /\ table_file.kind = "missing") =>
          metrics.ret = {} /\ PrintsError(metrics)
    /\ (MetricsFresh /\ table_file.kind = "table") =>
          ~PrintsError(metrics)

\* both lookups have run on a missing file
C6_Witness ==
    /\ MetricsFresh /\ table_file.kind = "missing"
    /\ value.diag = <<"Error: File not found">>
    /\ metrics.diag = <<"Error">>

\* C7: when the row substring matches exactly one row of table T, then for
\* every reordering of T's columns find_kernel_metric settles on the same row
\* and does not return None where it returned a cell before.
C7_SameRowWhateverColumnOrder ==
    (/\ reordered /\ ValueFresh
     /\ Cardinality(RowsWith(table0, arg_kernel)) = 1) =>
        /\ value.row_id = value0.row_id
        /\ value0.ret # None => value.ret # None

\* C10: on a table, a metric of the list is a key of find_all_kernel_metrics
\* exactly when find_kernel_metric returns a cell for it, and then both give
\* the same cell; on a missing or unreadable file the single lookup returns
\* None and the batch lookup the empty dict.
C10_BatchAgreesWithSingle ==
    MetricsFresh =>
        IF table_file.kind = "table"
        THEN IF \E i \in DOMAIN arg_metrics : arg_metrics[i] = arg_metric
             THEN /\ arg_metric \in Keys(metrics.ret) <=> value.ret # None
                  /\ arg_metric \in Keys(metrics.ret) =>
                        Get(metrics.ret, arg_metric) = value.ret
             ELSE arg_metric \notin Keys(metrics.ret)
        ELSE value.ret = None /\ metrics.ret = {}

\* the metric looked up alone is the second of two in the list, and is found
C10_Witness ==
    /\ MetricsFresh /\ table_file.kind = "table"
    /\ Len(arg_metrics) = 2
    /\ arg_metrics[2] = arg_metric /\ arg_metrics[1] # arg_metric
    /\ value.ret # None
    /\ arg_metric \in Keys(metrics.ret)

----------------------------------------------------------------------------
(* Properties of the sweeps, under SpecSweep and FairSweep.                *)

\* positions of the sweep's points: one per element of B x N x K x dtypes
AllPoints ==
    (1..Len(B_values)) \X (1..Len(N_values)) \X (1..Len(K_values)) \X (1..Len(dtypes))

NumPoints == Len(B_values) * Len(N_values) * Len(K_values) * Len(dtypes)

\* the log entries of kind ev
EventsOf(ev) == { i \in DOMAIN log : log[i].ev = ev }

\* how often the profiling command was attempted at point pt
Attempts(pt) == Cardinality({ i \in EventsOf("profile") : log[i].pt = pt })

\* C1: in both sweeps, whatever the exit statuses, the profiling command is
\* attempted exactly once for each point of B x N x K x dtypes, |B|*|N|*|K|*|dtypes|
\* times in all, and the sweep runs to its end.
C1_EveryPointAttemptedOnce ==
    /\ <>(pc = "done")
    /\ [](\A pt \in AllPoints : Attempts(pt) <= 1)
    /\ [](pc = "done" =>
            /\ \A pt \in AllPoints : Attempts(pt) = 1
            /\ Cardinality(EventsOf("profile")) = NumPoints)

\* a sweep of four points has ended although its first command exited non-zero
C1_Witness ==
    /\ pc = "done" /\ NumPoints = 4
    /\ Len(log) > 1 /\ log[1].ev = "profile" /\ log[1].rc # 0
    /\ Cardinality(EventsOf("profile")) = 4

\* the configuration tuple of a point
TupleOf(pt) == <<B_values[pt[1]], N_values[pt[2]], K_values[pt[3]], dtypes[pt[4]]>>

\* C2: in nsys_profile_samplingtopK the output name of a point is derived from
\* its tuple (B, N, K, dtype) alone, the same whatever happened at earlier
\* points, and two different tuples of one sweep never get the same name.
C2_NameDerivedFromTupleAlone ==
    tool = "nsys" =>
        /\ \A i \in EventsOf("profile") :
              log[i].name = OutputName(kernel_name0, TupleOf(log[i].pt)[1],
                                       TupleOf(log[i].pt)[2], TupleOf(log[i].pt)[3],
                                       TupleOf(log[i].pt)[4])
        /\ \A i, j \in EventsOf("profile") :
              TupleOf(log[i].pt) # TupleOf(log[j].pt) => log[i].name # log[j].name

\* the cells of a table, and of the trace tables on disk
CellsOf(t) == { t.rows[r][c] : r \in 1..Len(t.rows), c \in 1..Len(t.columns) }
CellsOnDisk == UNION { CellsOf(disk[q]) : q \in DOMAIN disk }

\* C3: every row of the summary table carries a value taken from one cell of an
\* exported trace table; a lookup that finds nothing writes no row, so no row
\* carries an empty value.
C3_NoRowWithoutValue ==
    \A i \in 2..Len(summary) :
        summary[i].Avg # None /\ summary[i].Avg \in CellsOnDisk

\* whether both commands of point pt exited zero
Succeeded(pt) ==
    \E i \in EventsOf("stats") : log[i].pt = pt /\ log[i].rc = 0

\* the point at place idx (from 0) of the iteration: B outermost, dtype innermost
PointAt(idx) ==
    LET nD == Len(dtypes)
        nK == Len(K_values)
        nN == Len(N_values)
    IN  << (idx \div (nD * nK * nN)) + 1,
           ((idx \div (nD * nK)) % nN) + 1,
           ((idx \div nD) % nK) + 1,
           (idx % nD) + 1 >>

\* a summary row without its metric value
Labels(row) == <<row.Kernel, row.B, row.N, row.K, row.dtype>>

\* the labels the table must hold for the points from place idx on
RECURSIVE LabelsFrom(_)
LabelsFrom(idx) ==
    IF idx >= NumPoints THEN <<>>
    ELSE LET pt == PointAt(idx)
             t == TupleOf(pt)
         IN  (IF Succeeded(pt)
              THEN << <<stopKStage1, t[1], t[2], t[3], t[4]>>,
                      <<stopKStage2Sampling, t[1], t[2], t[3], t[4]>> >>
              ELSE <<>>)
             \o LabelsFrom(idx + 1)

IsPrefix(s, t) == Len(s) <= Len(t) /\ SubSeq(t, 1, Len(s)) = s

\* C8: the summary table of nsys_profile_samplingtopK is the fixed header and,
\* for every point at which both commands exited zero, the rows topKStage1 then
\* topKStage2Sampling carrying the point's B, N, K and dtype, none for a point
\* at which a command failed, in iteration order; a written row never changes.
C8_SummaryTableShape ==
    /\ []((tool = "nsys" /\ pc = "done") =>
            /\ Len(summary) >= 1
            /\ summary[1] = SummaryHeader
            /\ [i \in 1..(Len(summary) - 1) |-> Labels(summary[i + 1])] = LabelsFrom(0))
    /\ [][IsPrefix(summary, summary')]_vars

\* a finished sweep of four points of which some failed and two succeeded
C8_Witness ==
    /\ tool = "nsys" /\ pc = "done" /\ NumPoints = 4
    /\ Len(summary) = 5
    /\ \E i \in DOMAIN log : log[i].rc # 0
    /\ summary[2].B # summary[4].B

====
